---- MODULE Spec2Model ----
(***************************************************************************)
(* Price-transparency file finder: the per-hospital status store           *)
(* (StatusTracker over SQLite, MainDBStatusTracker over the application     *)
(* database), the discovery attempt PriceFinderPipeline.find_price_file,    *)
(* the bounded-parallel PriceFinderPipeline.batch_process and the           *)
(* integration runner update_database_from_price_finder.                    *)
(*                                                                         *)
(* The specifications share the variables:                                  *)
(*   TrackerSpec  any sequence of StatusTracker calls on the SQLite store   *)
(*   Spec         one CLI search run: register the hospitals, batch_process *)
(*   RunnerSpec   one pass of the integration runner over the main database *)
(*   AttemptSpec  one find_price_file attempt on a registered hospital      *)
(*   CancelSpec   Spec with external cancellation of the batch              *)
(*   QuerySpec    StatusTracker.get_hospitals_to_search on a hospitals table *)
(*   MatcherSpec  HospitalMatcher.validate on one file                      *)
(*   ValidatorSpec FileValidator.is_valid_format on one file                *)
(*   LinkSpec     WebCrawler._find_price_file_links on one page             *)
(*   BrowserSpec  the tasks of a batch on the one WebCrawler's browser      *)
(*   CandidateSpec the candidate links find_price_file takes from one page  *)
(*   ScheduleSpec scheduled runs of the integration runner                  *)
(* Integers stand for confidences in hundredths (0.9 is 90).                *)
(***************************************************************************)
EXTENDS Integers, Sequences, FiniteSets

\* ------------------------------------------------------------------ bounds
\* hospitals in the store
NumHospitals == 2
\* TrackerSpec: rows the search_logs table can hold
MaxLogRows == 3
\* largest concurrency argument of batch_process
MaxConcurrency == 2
\* Spec: relevant results one link analysis returns, candidate files per run
BatchResults == 1
BatchFiles == 1
\* RunnerSpec: the same for one pass of the runner
RunnerResults == 2
RunnerFiles == 2
\* status-store calls that fail in one run
MaxFaults == 1
\* AttemptSpec: relevant results of the link analysis, candidate files
AttemptResults == 4
AttemptFiles == 2
\* QuerySpec: rows of the hospitals table
QueryRows == 2
\* LinkSpec: links of the crawled page
MaxPageLinks == 2
\* BrowserSpec: tasks in flight on the crawler, browser contexts ever made
MaxCrawlTasks == 2
MaxContexts == 3
\* ScheduleSpec: scheduled runs of the integration runner
MaxRuns == 2

\* ------------------------------------------------------- program constants
\* top_links = analyzed_results[:3]
TopLinks == 3
\* any(f.validation_score > 0.9 for f in temp_valid_files)
HighConfidence == 90
\* max_links_to_check = 5
MaxLinksToCheck == 5
\* FileValidator(min_rows = 10)
MinRows == 10
\* _validate_csv: fewer rows than min_rows are accepted from 3 rows on
SmallListRows == 3
\* if best_match_score > 0.4, in percent
GoodMatch == 40

Hospitals == 1..NumHospitals

STATUS_PENDING == "pending"
STATUS_SEARCHING == "searching"
STATUS_FOUND == "found"
STATUS_NOT_FOUND == "not_found"
STATUS_ERROR == "error"

\* no row for the hospital in the hospitals table
NoRow == "none"
Terminal == {STATUS_FOUND, STATUS_NOT_FOUND, STATUS_ERROR}

\* Outcome of one status-store call, as its caller sees it.
\*   ok       every statement and commit went through
\*   fail     a statement or commit raised inside the method's try: rollback,
\*            the method returns False
\*   raise    sqlite3.connect raised in _get_connection, before the try:
\*            the method raises
\*   partial  (main database) the first commit went through, the second
\*            raised: rollback of the second part, the method returns True
SqliteOutcomes == {"ok", "fail", "raise"}
MainOutcomes == {"ok", "fail", "partial"}

\* Validation confidences a matched file can carry.
Scores == {75, 95}
\* Reasons the pipeline passes to mark_failure.
NO_RESULTS == "No search results found"
NO_VALID == "No valid files found"
Reasons == {NO_RESULTS, NO_VALID}
\* str(e) of the exceptions an attempt can see.
E_CONNECT == "unable to open database file"
E_ANALYZE == "link analysis failed"
E_CRAWL == "crawl failed"

PriceFile(u, s) == [url |-> u, validated |-> TRUE, score |-> s]
NoFile == [url |-> 0, validated |-> FALSE, score |-> 0]

VARIABLES
    tracker,      \* the StatusTracker the pipeline holds: "sqlite" or "main"
    store,        \* the status store's tables
    lastCall,     \* TrackerSpec: the StatusTracker method called last
    phase,        \* where the run is
    hospitals,    \* the hospitals handed to batch_process / selected by the runner
    concurrency,  \* batch_process's concurrency argument
    sem,          \* free slots of asyncio.Semaphore(concurrency)
    task,         \* per hospital: the find_price_file attempt
    stats,        \* StatsTracker counters
    results,      \* batch_process's results dict
    calls,        \* per hospital: StatusTracker calls find_price_file made
    web,          \* what the web offers in this run
    runner,       \* RunnerSpec: the hospital the runner's loop is at
    fn            \* the function called on its own: its arguments and result

vars == <<tracker, store, lastCall, phase, hospitals, concurrency, sem, task,
          stats, results, calls, web, runner, fn>>

\* no function is being called on its own
NoCall == [op |-> "none"]

\* ------------------------------------------------------------ status store
\* hospitals(id, search_status, search_attempts), search_logs(hospital_id,
\* status, message), price_files(hospital_id, url, ...); trans counts the
\* committed changes of search_status since the row was inserted; found is the
\* main database's hospitals.price_file_found
EmptyStore ==
    [status |-> [h \in Hospitals |-> NoRow],
     attempts |-> [h \in Hospitals |-> 0],
     logs |-> [h \in Hospitals |-> <<>>],
     files |-> [h \in Hospitals |-> <<>>],
     trans |-> [h \in Hospitals |-> 0],
     found |-> [h \in Hospitals |-> FALSE]]

LogRow(s, m) == [status |-> s, message |-> m]

\* UPDATE hospitals SET search_status = s WHERE id = h
SetStatus(d, h, s) ==
    [d EXCEPT !.status[h] = s,
              !.trans[h] = IF d.status[h] = s THEN @ ELSE @ + 1]

RECURSIVE SumLen(_, _)
SumLen(f, S) ==
    IF S = {} THEN 0
    ELSE LET h == CHOOSE x \in S : TRUE IN Len(f[h]) + SumLen(f, S \ {h})

TotalLogs(d) == SumLen(d.logs, Hospitals)

\* StatusTracker.register_hospital: insert as pending, or update name/state only
RegisterHospital(d, h, o) ==
    IF o # "ok" THEN d
    ELSE IF d.status[h] # NoRow THEN d
    ELSE [d EXCEPT !.status[h] = STATUS_PENDING]

\* StatusTracker.register_hospitals: one transaction for the whole list
RECURSIVE RegisterHospitals(_, _, _)
RegisterHospitals(d, S, o) ==
    IF S = {} THEN d
    ELSE LET h == CHOOSE x \in S : TRUE
         IN RegisterHospitals(RegisterHospital(d, h, o), S \ {h}, o)

\* With no row for the hospital the UPDATE matches nothing and the INSERT into
\* search_logs violates the foreign key (PRAGMA foreign_keys = ON): rollback.
SqliteWrites(d, h, o) == o = "ok" /\ d.status[h] # NoRow

\* a start_search that writes no search_logs row
SqliteStartSearchSilent(d, h, o) ==
    IF SqliteWrites(d, h, o)
    THEN [SetStatus(d, h, STATUS_SEARCHING) EXCEPT !.attempts[h] = @ + 1]
    ELSE d

\* StatusTracker.start_search
SqliteStartSearch(d, h, o) ==
    IF SqliteWrites(d, h, o)
    THEN [SetStatus(d, h, STATUS_SEARCHING) EXCEPT
              !.attempts[h] = @ + 1,
              !.logs[h] = Append(@, LogRow(STATUS_SEARCHING, "Search started"))]
    ELSE d

\* StatusTracker.mark_success: status, price_files row and log in one transaction
SqliteMarkSuccess(d, h, pf, o) ==
    IF SqliteWrites(d, h, o)
    THEN [SetStatus(d, h, STATUS_FOUND) EXCEPT
              !.files[h] = Append(@, pf),
              !.logs[h] = Append(@, LogRow(STATUS_FOUND, "Found price file"))]
    ELSE d

\* a mark_failure that also counts an attempt
SqliteMarkFailureCounting(d, h, reason, o) ==
    IF SqliteWrites(d, h, o)
    THEN [SetStatus(d, h, STATUS_NOT_FOUND) EXCEPT
              !.attempts[h] = @ + 1,
              !.logs[h] = Append(@, LogRow(STATUS_NOT_FOUND, reason))]
    ELSE d

\* StatusTracker.mark_failure; the stored message is
\* "Price file not found: " + reason
SqliteMarkFailure(d, h, reason, o) ==
    IF SqliteWrites(d, h, o)
    THEN [SetStatus(d, h, STATUS_NOT_FOUND) EXCEPT
              !.logs[h] = Append(@, LogRow(STATUS_NOT_FOUND, reason))]
    ELSE d

\* StatusTracker.mark_error; the stored message is
\* "Error during search: " + error_message
SqliteMarkError(d, h, msg, o) ==
    IF SqliteWrites(d, h, o)
    THEN [SetStatus(d, h, STATUS_ERROR) EXCEPT
              !.logs[h] = Append(@, LogRow(STATUS_ERROR, msg))]
    ELSE d

\* ------------------------------------------- main-database status tracker
\* db_hospital found and the commit of the hospital row went through
MainWrites(d, h, o) == o # "fail" /\ d.status[h] # NoRow

\* MainDBStatusTracker.start_search: status, counter and log in one commit
MainStartSearch(d, h, o) ==
    IF o = "ok" /\ d.status[h] # NoRow
    THEN [SetStatus(d, h, STATUS_SEARCHING) EXCEPT
              !.attempts[h] = @ + 1,
              !.logs[h] = Append(@, LogRow(STATUS_SEARCHING,
                                          "Started price transparency search"))]
    ELSE d

HasUrl(rows, u) == \E i \in 1..Len(rows) : rows[i].url = u

\* the HospitalPriceFile row with this file_url is updated, or a new row added
UpsertFile(rows, pf) ==
    IF HasUrl(rows, pf.url)
    THEN [i \in 1..Len(rows) |-> IF rows[i].url = pf.url THEN pf ELSE rows[i]]
    ELSE Append(rows, pf)

\* MainDBStatusTracker.mark_success: the hospital row is committed first, the
\* price file and the log in a second commit whose failure is only logged
MainMarkSuccess(d, h, pf, o) ==
    IF ~MainWrites(d, h, o) THEN d
    ELSE IF o = "partial"
    THEN [SetStatus(d, h, STATUS_FOUND) EXCEPT !.found[h] = TRUE]
    ELSE [SetStatus(d, h, STATUS_FOUND) EXCEPT
              !.found[h] = TRUE,
              !.files[h] = UpsertFile(@, pf),
              !.logs[h] = Append(@, LogRow(STATUS_FOUND, "Found price file"))]

\* MainDBStatusTracker.mark_failure: status commit, then a commit for the log
MainMarkFailure(d, h, reason, o) ==
    IF ~MainWrites(d, h, o) THEN d
    ELSE IF o = "partial" THEN SetStatus(d, h, STATUS_NOT_FOUND)
    ELSE [SetStatus(d, h, STATUS_NOT_FOUND) EXCEPT
              !.logs[h] = Append(@, LogRow(STATUS_NOT_FOUND, reason))]

\* MainDBStatusTracker.mark_error: status commit, then a commit for the log
MainMarkError(d, h, msg, o) ==
    IF ~MainWrites(d, h, o) THEN d
    ELSE IF o = "partial" THEN SetStatus(d, h, STATUS_ERROR)
    ELSE [SetStatus(d, h, STATUS_ERROR) EXCEPT
              !.logs[h] = Append(@, LogRow(STATUS_ERROR, msg))]

\* ------------------------------------- self.status_tracker.<method>(...)
Outcomes(t) == IF t = "sqlite" THEN SqliteOutcomes ELSE MainOutcomes
StartOutcomes(t) == IF t = "sqlite" THEN SqliteOutcomes ELSE {"ok", "fail"}

TrackerStartSearch(t, d, h, o) ==
    IF t = "sqlite" THEN SqliteStartSearch(d, h, o) ELSE MainStartSearch(d, h, o)
TrackerMarkSuccess(t, d, h, pf, o) ==
    IF t = "sqlite" THEN SqliteMarkSuccess(d, h, pf, o) ELSE MainMarkSuccess(d, h, pf, o)
TrackerMarkFailure(t, d, h, reason, o) ==
    IF t = "sqlite" THEN SqliteMarkFailure(d, h, reason, o)
    ELSE MainMarkFailure(d, h, reason, o)
TrackerMarkError(t, d, h, msg, o) ==
    IF t = "sqlite" THEN SqliteMarkError(d, h, msg, o) ELSE MainMarkError(d, h, msg, o)

\* ------------------------------------------------------------ StatsTracker
ZeroStats == [processed |-> 0, found |-> 0, notFound |-> 0, errors |-> 0]

\* StatsTracker.record_hospital_processed
RecordHospitalProcessed(s, foundFile, hadError) ==
    [s EXCEPT !.processed = @ + 1,
              !.errors = IF hadError THEN @ + 1 ELSE @,
              !.found = IF ~hadError /\ foundFile THEN @ + 1 ELSE @,
              !.notFound = IF ~hadError /\ ~foundFile THEN @ + 1 ELSE @]

\* StatsTracker.log_final_stats divides by hospitals_processed
LogFinalStatsRaises(s) == s.processed = 0

\* --------------------------------------------------- find_price_file locals
\* pc: "new" no task, "gate" waiting for the semaphore, "analyze" / "crawl" /
\* "file" suspended in that await, "done" left find_price_file
\* ret: "file" (a PriceFile returned), "none" (None returned), "raised"
\* exc: str(e) of the exception the except clause caught, "" if none
\* valid: valid_files; once done (AttemptSpec), valid_files as the attempt
\* left it
\* why: once done (AttemptSpec), "no_results" when the search returned nothing
NewTask == [pc |-> "new", links |-> 0, cands |-> 0, temp |-> <<>>, valid |-> <<>>,
            ret |-> "unset", best |-> NoFile, exc |-> "", why |-> ""]
NoCalls == [start |-> 0, mark |-> 0]
InFlight == {"analyze", "crawl", "file"}

Max(S) == CHOOSE s \in S : \A x \in S : x <= s
Min(a, b) == IF a < b THEN a ELSE b
MaxScore(v) == Max({v[i].score : i \in 1..Len(v)})

\* best_file = valid_files[0] without the sort
BestFileFirst(v) == v[1]

\* valid_files.sort(key=score, reverse=True); best_file = valid_files[0]
\* (the sort is stable: the first file with the highest score)
BestFile(v) ==
    LET i == CHOOSE k \in 1..Len(v) :
                 /\ v[k].score = MaxScore(v)
                 /\ \A j \in 1..(k - 1) : v[j].score # MaxScore(v)
    IN v[i]

\* any(f.validation_score > 0.9 for f in temp_valid_files)
HasHighConfidence(t) == \E i \in 1..Len(t) : t[i].score > HighConfidence

\* _process_hospital once find_price_file has returned rv or raised:
\* results[hospital.id], record_hospital_processed, release of the semaphore
\* (s is the semaphore's value while the task holds its slot)
ProcessHospitalEnd(h, rv, s) ==
    /\ sem' = s + 1
    /\ IF rv = "raised"
       THEN /\ stats' = RecordHospitalProcessed(stats, FALSE, TRUE)
            /\ results' = results
       ELSE /\ stats' = RecordHospitalProcessed(stats, rv = "file", FALSE)
            /\ results' = [results EXCEPT ![h] = rv]
    /\ UNCHANGED runner

\* control goes back to the caller of find_price_file
EndAttempt(h, rv, s) ==
    IF phase = "running" THEN ProcessHospitalEnd(h, rv, s)
    ELSE /\ runner' = [pc |-> "after", h |-> h, rv |-> rv]
         /\ UNCHANGED <<sem, stats, results>>

\* find_price_file is suspended in an await
Suspend(h, s) ==
    IF phase = "running" THEN sem' = s /\ UNCHANGED <<stats, results, runner>>
    ELSE /\ runner' = [pc |-> "attempt", h |-> h, rv |-> "unset"]
         /\ UNCHANGED <<sem, stats, results>>

\* What one uninterrupted stretch of find_price_file has done so far: the
\* store as it left it (d), the semaphore while the slot is held (s), what the
\* environment still offers (w), its start_search and mark_* calls, and the
\* valid files the attempt holds in valid_files when it leaves (got).
Ctx(d, s, w) ==
    [d |-> d, s |-> s, w |-> w, start |-> 0, mark |-> 0, got |-> <<>>, why |-> ""]

\* the outcomes the next status-store call can have
OutcomesNow(c, all) == IF c.w.faults > 0 THEN all ELSE {"ok"}

\* the stretch after a status-store call with outcome o that left the store as d
AfterCall(c, d, o, nStart, nMark) ==
    [c EXCEPT !.d = d,
              !.w.faults = IF o = "ok" THEN @ ELSE @ - 1,
              !.start = @ + nStart,
              !.mark = @ + nMark]

\* find_price_file leaves with rv; msg is what the except clause caught
Return(h, c, rv, pf, msg) ==
    /\ task' = [task EXCEPT ![h] = [NewTask EXCEPT !.pc = "done", !.ret = rv,
                                                   !.best = pf, !.exc = msg,
                                                   !.valid = IF phase = "attempt"
                                                             THEN c.got ELSE <<>>,
                                                   !.why = IF phase = "attempt"
                                                           THEN c.why ELSE ""]]
    /\ calls' = [calls EXCEPT ![h] = [start |-> @.start + c.start,
                                      mark |-> @.mark + c.mark]]
    /\ store' = c.d
    /\ web' = c.w
    /\ EndAttempt(h, rv, c.s)
    /\ UNCHANGED <<tracker, fn, lastCall, phase, hospitals, concurrency>>

\* except Exception as e: mark_error(hospital_id, str(e)); return None
Except(h, c, msg) ==
    \E o \in OutcomesNow(c, Outcomes(tracker)) :
        Return(h, AfterCall(c, TrackerMarkError(tracker, c.d, h, msg, o), o, 0, 1),
               IF o = "raise" THEN "raised" ELSE "none", NoFile, msg)

\* Step 4: mark_success(best_file) and return it, or mark_failure and return None
Finish(h, c0, v) ==
    LET c == [c0 EXCEPT !.got = v] IN
    \E o \in OutcomesNow(c, Outcomes(tracker)) :
        IF o = "raise" THEN Except(h, AfterCall(c, c.d, o, 0, 1), E_CONNECT)
        ELSE IF v # <<>>
        THEN Return(h, AfterCall(c, TrackerMarkSuccess(tracker, c.d, h, BestFile(v), o),
                                 o, 0, 1),
                    "file", BestFile(v), "")
        ELSE Return(h, AfterCall(c, TrackerMarkFailure(tracker, c.d, h, NO_VALID, o),
                                 o, 0, 1),
                    "none", NoFile, "")

\* the attempt goes on as t and is suspended in its next await
Continue(h, c, t) ==
    /\ task' = [task EXCEPT ![h] = t]
    /\ calls' = [calls EXCEPT ![h] = [start |-> @.start + c.start,
                                      mark |-> @.mark + c.mark]]
    /\ store' = c.d
    /\ web' = c.w
    /\ Suspend(h, c.s)
    /\ UNCHANGED <<tracker, fn, lastCall, phase, hospitals, concurrency>>

\* the for loop over top_links moves to its next page, or ends
NextPage(h, c, v) ==
    IF task[h].links > 1
    THEN Continue(h, c, [task[h] EXCEPT !.pc = "crawl", !.links = @ - 1,
                                        !.cands = 0, !.temp = <<>>, !.valid = v])
    ELSE Finish(h, c, v)

\* find_price_file from its first line to its first suspension:
\* start_search, the search, mark_failure when it returns nothing
Enter(h, c) ==
    \E o \in OutcomesNow(c, StartOutcomes(tracker)) :
        IF o = "raise" THEN Except(h, AfterCall(c, c.d, o, 1, 0), E_CONNECT)
        ELSE LET c1 == AfterCall(c, TrackerStartSearch(tracker, c.d, h, o), o, 1, 0)
                 c0 == [c1 EXCEPT !.why = "no_results"] IN
            \/ \E o2 \in OutcomesNow(c0, Outcomes(tracker)) :
                 IF o2 = "raise" THEN Except(h, AfterCall(c0, c0.d, o2, 0, 1), E_CONNECT)
                 ELSE Return(h, AfterCall(c0, TrackerMarkFailure(tracker, c0.d, h,
                                                                NO_RESULTS, o2),
                                          o2, 0, 1),
                             "none", NoFile, "")
            \/ Continue(h, c1, [task[h] EXCEPT !.pc = "analyze"])

\* ------------------------------------------------------------ the attempt
\* a task that starts its attempt without waiting for a free slot
AcquireNoGate(h) ==
    /\ phase = "running"
    /\ task[h].pc = "gate"
    /\ Enter(h, Ctx(store, sem - 1, web))

\* async with sem: the task takes a slot when one is free, and runs
\* find_price_file up to its first suspension
Acquire(h) ==
    /\ phase = "running"
    /\ task[h].pc = "gate"
    /\ sem > 0
    /\ Enter(h, Ctx(store, sem - 1, web))

\* analyze_search_results returns n relevant results (or raises); top_links
\* keeps at most three of them
AnalyzeReturns(h) ==
    /\ task[h].pc = "analyze"
    /\ \/ Except(h, Ctx(store, sem, web), E_ANALYZE)
       \/ \E n \in 0..web.results :
            IF n = 0 THEN Finish(h, Ctx(store, sem, web), <<>>)
            ELSE Continue(h, Ctx(store, sem, web),
                          [task[h] EXCEPT !.pc = "crawl", !.links = Min(n, TopLinks)])

\* crawler.crawl returns a page with n links to price files (or raises); at
\* most max_links_to_check of them are checked
CrawlReturns(h) ==
    /\ task[h].pc = "crawl"
    /\ \/ Except(h, [Ctx(store, sem, web) EXCEPT !.got = task[h].valid], E_CRAWL)
       \/ \E n \in 0..web.files :
            LET c == Ctx(store, sem, [web EXCEPT !.files = @ - n]) IN
            IF n = 0 THEN NextPage(h, c, task[h].valid)
            ELSE Continue(h, c, [task[h] EXCEPT !.pc = "file",
                                                !.cands = Min(n, MaxLinksToCheck)])

CandidateUrl(h) == task[h].cands

\* one candidate link is decided: skipped, failed (caught in the loop), not a
\* match, or valid with confidence r; after the page's last candidate the
\* page's valid files are added and the loop breaks on a high-confidence file
FileDone(h) ==
    /\ task[h].pc = "file"
    /\ \E r \in {0} \cup Scores :
        LET t == IF r = 0 THEN task[h].temp
                 ELSE Append(task[h].temp, PriceFile(CandidateUrl(h), r))
            v == task[h].valid \o t
            c == Ctx(store, sem, web)
        IN IF task[h].cands > 1
           THEN Continue(h, c, [task[h] EXCEPT !.cands = @ - 1, !.temp = t])
           ELSE IF HasHighConfidence(t) THEN Finish(h, c, v)
           ELSE NextPage(h, c, v)

\* ------------------------------------------------------------ batch_process
\* load_hospitals_from_file: register_hospitals(all hospitals of the file)
LoadHospitals ==
    /\ phase = "init"
    /\ \E o \in {"ok", "fail"} :
         store' = RegisterHospitals(store, Hospitals, o)
    /\ phase' = "loaded"
    /\ UNCHANGED <<tracker, fn, lastCall, hospitals, concurrency, sem, task, stats,
                   results, calls, web, runner>>

\* batch_process(hospitals = L, concurrency = c) up to gather: stats.reset(),
\* the semaphore, one task per hospital
BatchProcess ==
    /\ phase = "loaded"
    /\ \E L \in SUBSET Hospitals, c \in 1..MaxConcurrency :
        /\ hospitals' = L
        /\ concurrency' = c
        /\ sem' = c
        /\ task' = [h \in Hospitals |-> IF h \in L THEN [NewTask EXCEPT !.pc = "gate"]
                                        ELSE NewTask]
    /\ stats' = ZeroStats
    /\ results' = [h \in Hospitals |-> "unset"]
    /\ calls' = [h \in Hospitals |-> NoCalls]
    /\ web' = [results |-> BatchResults, files |-> BatchFiles, faults |-> MaxFaults]
    /\ phase' = "running"
    /\ UNCHANGED <<tracker, fn, store, lastCall, runner>>

\* gather has every task's result: log_final_stats, export_results (its
\* connection is opened outside its try), then the summary is returned
BatchReturn ==
    /\ phase = "running"
    /\ \A h \in hospitals : task[h].pc = "done"
    /\ \E o \in SqliteOutcomes :
         phase' = IF LogFinalStatsRaises(stats) \/ o = "raise"
                  THEN "raised" ELSE "returned"
    /\ UNCHANGED <<tracker, fn, store, lastCall, hospitals, concurrency, sem, task,
                   stats, results, calls, web, runner>>

Init ==
    /\ tracker = "sqlite"
    /\ fn = NoCall
    /\ store = EmptyStore
    /\ lastCall = [op |-> "none", id |-> 0]
    /\ phase = "init"
    /\ hospitals = {}
    /\ concurrency = 0
    /\ sem = 0
    /\ task = [h \in Hospitals |-> NewTask]
    /\ stats = ZeroStats
    /\ results = [h \in Hospitals |-> "unset"]
    /\ calls = [h \in Hospitals |-> NoCalls]
    /\ web = [results |-> 0, files |-> 0, faults |-> 0]
    /\ runner = [pc |-> "off", h |-> 0, rv |-> "unset"]

Next ==
    \/ LoadHospitals
    \/ BatchProcess
    \/ BatchReturn
    \/ \E h \in Hospitals : Acquire(h)
    \/ \E h \in Hospitals : AnalyzeReturns(h)
    \/ \E h \in Hospitals : CrawlReturns(h)
    \/ \E h \in Hospitals : FileDone(h)

Spec == Init /\ [][Next]_vars

\* ------------------------------------------------------------ cancellation
\* CancelSpec: the batch with external cancellation. asyncio.run cancels the
\* main task on KeyboardInterrupt, the pending gather cancels every task that
\* has not finished, and CancelledError is raised in each at the await it is
\* suspended in. CancelledError derives from BaseException, so neither
\* except Exception (find_price_file, _process_hospital) handles it: the
\* task leaves through async with, which releases its slot, and no
\* StatusTracker method is called.
Cancel ==
    /\ phase = "running"
    /\ \E h \in hospitals : task[h].pc # "done"
    /\ task' = [h \in Hospitals |->
                   IF task[h].pc \in InFlight \cup {"gate"}
                   THEN [task[h] EXCEPT !.pc = "cancelled", !.ret = "raised"]
                   ELSE task[h]]
    /\ sem' = concurrency
    /\ phase' = "cancelled"
    /\ UNCHANGED <<tracker, fn, store, lastCall, hospitals, concurrency, stats,
                   results, calls, web, runner>>

CancelNext == Next \/ Cancel

CancelSpec == Init /\ [][CancelNext]_vars

\* ------------------------------------------- StatusTracker called directly
\* TrackerSpec: the SQLite StatusTracker's methods, called in any order with
\* any hospital id, each call one transaction.
CanLog == TotalLogs(store) < MaxLogRows

TrackerCall(op, h, d) ==
    /\ store' = d
    /\ lastCall' = [op |-> op, id |-> h]
    /\ UNCHANGED <<tracker, fn, phase, hospitals, concurrency, sem, task, stats,
                   results, calls, web, runner>>

ApiRegisterHospital(h) ==
    /\ phase = "api"
    /\ \E o \in {"ok", "fail"} :
        TrackerCall("register_hospital", h, RegisterHospital(store, h, o))

ApiStartSearch(h) ==
    /\ phase = "api"
    /\ CanLog
    /\ \E o \in SqliteOutcomes :
        TrackerCall("start_search", h, SqliteStartSearch(store, h, o))

ApiMarkSuccess(h) ==
    /\ phase = "api"
    /\ CanLog
    /\ \E o \in SqliteOutcomes :
        TrackerCall("mark_success", h,
                    SqliteMarkSuccess(store, h, PriceFile(1, HighConfidence), o))

ApiMarkFailure(h) ==
    /\ phase = "api"
    /\ CanLog
    /\ \E o \in SqliteOutcomes, reason \in Reasons :
        TrackerCall("mark_failure", h, SqliteMarkFailure(store, h, reason, o))

ApiMarkError(h) ==
    /\ phase = "api"
    /\ CanLog
    /\ \E o \in SqliteOutcomes :
        TrackerCall("mark_error", h, SqliteMarkError(store, h, E_CRAWL, o))

TrackerInit ==
    /\ tracker = "sqlite"
    /\ fn = NoCall
    /\ store = EmptyStore
    /\ lastCall = [op |-> "none", id |-> 0]
    /\ phase = "api"
    /\ hospitals = {}
    /\ concurrency = 0
    /\ sem = 0
    /\ task = [h \in Hospitals |-> NewTask]
    /\ stats = ZeroStats
    /\ results = [h \in Hospitals |-> "unset"]
    /\ calls = [h \in Hospitals |-> NoCalls]
    /\ web = [results |-> 0, files |-> 0, faults |-> 0]
    /\ runner = [pc |-> "off", h |-> 0, rv |-> "unset"]

TrackerNext ==
    \/ \E h \in Hospitals : ApiRegisterHospital(h)
    \/ \E h \in Hospitals : ApiStartSearch(h)
    \/ \E h \in Hospitals : ApiMarkSuccess(h)
    \/ \E h \in Hospitals : ApiMarkFailure(h)
    \/ \E h \in Hospitals : ApiMarkError(h)

TrackerSpec == TrackerInit /\ [][TrackerNext]_vars

\* --------------------------------------- update_database_from_price_finder
\* RunnerSpec: one call of the integration runner. Its session is the one the
\* MainDBStatusTracker writes through; every hospital row exists, as pending.
MainStore == [EmptyStore EXCEPT !.status = [h \in Hospitals |-> STATUS_PENDING]]

\* result_dict.get("status", "unknown"): PriceFile.to_dict() has no "status"
ResultStatus(rv) ==
    IF rv = "file" THEN "unknown" ELSE IF rv = "none" THEN STATUS_NOT_FOUND
    ELSE STATUS_ERROR

\* the query: order_by(last_search_date nulls first).limit(batch_size)
RunnerSelect ==
    /\ phase = "select"
    /\ \E L \in SUBSET Hospitals :
        /\ hospitals' = L
        /\ task' = [h \in Hospitals |-> IF h \in L THEN [NewTask EXCEPT !.pc = "queued"]
                                        ELSE NewTask]
    /\ web' = [results |-> RunnerResults, files |-> RunnerFiles, faults |-> MaxFaults]
    /\ runner' = [pc |-> "idle", h |-> 0, rv |-> "unset"]
    /\ phase' = "runner"
    /\ UNCHANGED <<tracker, fn, store, lastCall, concurrency, sem, stats, results, calls>>

\* the loop takes a hospital: search_status = "searching", search_attempts + 1,
\* commit, then find_price_file up to its first suspension; a commit that
\* raises goes to the outer except, which tries to store "error"
RunnerBegin(h) ==
    /\ phase = "runner"
    /\ runner.pc = "idle"
    /\ task[h].pc = "queued"
    /\ LET c == Ctx(store, sem, web) IN
       \E o \in OutcomesNow(c, {"ok", "fail"}) :
        IF o = "ok"
        THEN Enter(h, [c EXCEPT !.d = [SetStatus(store, h, STATUS_SEARCHING)
                                          EXCEPT !.attempts[h] = @ + 1]])
        ELSE LET c1 == AfterCall(c, store, o, 0, 0) IN
             \E o2 \in OutcomesNow(c1, {"ok", "fail"}) :
                /\ store' = IF o2 = "ok" THEN SetStatus(store, h, STATUS_ERROR)
                            ELSE store
                /\ web' = AfterCall(c1, store, o2, 0, 0).w
                /\ task' = [task EXCEPT ![h].pc = "done"]
                /\ UNCHANGED <<tracker, fn, lastCall, phase, hospitals, concurrency,
                               sem, stats, results, calls, runner>>

\* after find_price_file: status (and price_file_found) from the result, the
\* runner's own log row,
\* the price file row, commit; when the commit raises, rollback (the minimal
\* update names SessionFactory, which the module never defines: NameError,
\* caught and logged)
RunnerAfter ==
    /\ phase = "runner"
    /\ runner.pc = "after"
    /\ LET h == runner.h
           rv == runner.rv
           c == Ctx(store, sem, web)
           d1 == IF rv = "file"
                 THEN [SetStatus(store, h, STATUS_FOUND) EXCEPT !.found[h] = TRUE]
                 ELSE SetStatus(store, h, STATUS_NOT_FOUND)
           d2 == [d1 EXCEPT !.logs[h] = Append(@, LogRow(ResultStatus(rv), "result")),
                            !.files[h] = IF rv = "file"
                                         THEN UpsertFile(@, task[h].best) ELSE @]
       IN \E o \in OutcomesNow(c, {"ok", "fail"}) :
            /\ store' = IF o = "ok" THEN d2 ELSE store
            /\ web' = AfterCall(c, store, o, 0, 0).w
    /\ runner' = [pc |-> "idle", h |-> 0, rv |-> "unset"]
    /\ UNCHANGED <<tracker, fn, lastCall, phase, hospitals, concurrency, sem, task,
                   stats, results, calls>>

\* the loop is over (or no hospital was selected): stats are returned
RunnerReturn ==
    /\ phase = "runner"
    /\ runner.pc = "idle"
    /\ \A h \in hospitals : task[h].pc = "done"
    /\ phase' = "returned"
    /\ UNCHANGED <<tracker, fn, store, lastCall, hospitals, concurrency, sem, task,
                   stats, results, calls, web, runner>>

RunnerInit ==
    /\ tracker = "main"
    /\ fn = NoCall
    /\ store = MainStore
    /\ lastCall = [op |-> "none", id |-> 0]
    /\ phase = "select"
    /\ hospitals = {}
    /\ concurrency = 0
    /\ sem = 0
    /\ task = [h \in Hospitals |-> NewTask]
    /\ stats = ZeroStats
    /\ results = [h \in Hospitals |-> "unset"]
    /\ calls = [h \in Hospitals |-> NoCalls]
    /\ web = [results |-> 0, files |-> 0, faults |-> 0]
    /\ runner = [pc |-> "off", h |-> 0, rv |-> "unset"]

RunnerNext ==
    \/ RunnerSelect
    \/ \E h \in Hospitals : RunnerBegin(h)
    \/ \E h \in Hospitals : AnalyzeReturns(h)
    \/ \E h \in Hospitals : CrawlReturns(h)
    \/ \E h \in Hospitals : FileDone(h)
    \/ RunnerAfter
    \/ RunnerReturn

RunnerSpec == RunnerInit /\ [][RunnerNext]_vars

\* ---------------------------------------------------- one find_price_file
\* AttemptSpec: find_price_file(h) awaited once by a caller that keeps its
\* result, on a store where every hospital is registered and pending.
RegisteredStore == RegisterHospitals(EmptyStore, Hospitals, "ok")

AttemptBegin(h) ==
    /\ phase = "attempt"
    /\ runner.pc = "off"
    /\ Enter(h, Ctx(store, sem, web))

AttemptInit ==
    /\ tracker = "sqlite"
    /\ fn = NoCall
    /\ store = RegisteredStore
    /\ lastCall = [op |-> "none", id |-> 0]
    /\ phase = "attempt"
    /\ hospitals = {}
    /\ concurrency = 0
    /\ sem = 0
    /\ task = [h \in Hospitals |-> NewTask]
    /\ stats = ZeroStats
    /\ results = [h \in Hospitals |-> "unset"]
    /\ calls = [h \in Hospitals |-> NoCalls]
    /\ web = [results |-> AttemptResults, files |-> AttemptFiles, faults |-> MaxFaults]
    /\ runner = [pc |-> "off", h |-> 0, rv |-> "unset"]

AttemptNext ==
    \/ \E h \in Hospitals : AttemptBegin(h)
    \/ \E h \in Hospitals : AnalyzeReturns(h)
    \/ \E h \in Hospitals : CrawlReturns(h)
    \/ \E h \in Hospitals : FileDone(h)

AttemptSpec == AttemptInit /\ [][AttemptNext]_vars

\* ------------------------------------------------------------------ claims
LastLog(h) == store.logs[h][Len(store.logs[h])]
Returned(h) == task[h].pc = "done" /\ task[h].ret \in {"file", "none"}

\* C1 (Spec): once find_price_file(h) has returned, the stored status of h is
\* found, not_found or error, whatever the status-store calls did.
C1_TerminalAfterAttempt ==
    \A h \in Hospitals : Returned(h) => store.status[h] \in Terminal

\* C2 (TrackerSpec): every change of a hospital's status follows one of the
\* edges pending->searching, searching->{found, not_found, error},
\* {not_found, error}->searching (and the insertion of the row as pending).
Edges ==
    {<<NoRow, STATUS_PENDING>>, <<STATUS_PENDING, STATUS_SEARCHING>>,
     <<STATUS_SEARCHING, STATUS_FOUND>>, <<STATUS_SEARCHING, STATUS_NOT_FOUND>>,
     <<STATUS_SEARCHING, STATUS_ERROR>>, <<STATUS_NOT_FOUND, STATUS_SEARCHING>>,
     <<STATUS_ERROR, STATUS_SEARCHING>>}

C2_OnlyListedEdges ==
    [][\A h \in Hospitals :
          store'.status[h] # store.status[h]
              => <<store.status[h], store'.status[h]>> \in Edges]_vars

\* C3 (RunnerSpec): a hospital is in found only with a price file row stored
\* for it: the status change and the row take effect together or not at all.
C3_FoundHasPriceFile ==
    \A h \in Hospitals : store.status[h] = STATUS_FOUND => store.files[h] # <<>>

\* C4 (RunnerSpec): every change of a hospital's status comes with exactly one
\* search log row, so the hospital's log rows number its status changes.
C4_OneLogPerTransition ==
    \A h \in Hospitals : Len(store.logs[h]) = store.trans[h]

\* C5 (TrackerSpec): the attempt counter of a hospital changes only in a
\* start_search on that hospital, which adds exactly one when it takes effect;
\* register_hospital, mark_success, mark_failure and mark_error leave it alone.
C5_AttemptsOnlyInStartSearch ==
    [][\A h \in Hospitals :
          /\ store'.attempts[h] # store.attempts[h]
                => /\ lastCall' = [op |-> "start_search", id |-> h]
                   /\ store'.attempts[h] = store.attempts[h] + 1
          /\ (/\ lastCall' = [op |-> "start_search", id |-> h]
              /\ store'.logs[h] # store.logs[h])
                => store'.attempts[h] = store.attempts[h] + 1]_vars

\* mark_failure took effect twice in a row on a hospital searched once
C5_Witness ==
    \E h \in Hospitals :
        /\ lastCall = [op |-> "mark_failure", id |-> h]
        /\ store.attempts[h] = 1
        /\ Len(store.logs[h]) >= 3
        /\ store.logs[h][1].status = STATUS_SEARCHING
        /\ store.logs[h][2].status = STATUS_NOT_FOUND
        /\ store.logs[h][3].status = STATUS_NOT_FOUND

\* C6 (Spec): when batch_process returns, every hospital of the list got
\* exactly one start_search and exactly one terminal mark_* call, and
\* processed = N = found + not_found + errors.
C6_ExactlyOnce ==
    phase = "returned"
        => /\ \A h \in hospitals : calls[h].start = 1 /\ calls[h].mark = 1
           /\ stats.processed = Cardinality(hospitals)
           /\ stats.processed = stats.found + stats.notFound + stats.errors

\* C7 (Spec): an exception that reaches find_price_file's except clause is
\* recorded by mark_error with its message (status error), and find_price_file
\* returns None instead of raising.
C7_ExceptionRecorded ==
    \A h \in Hospitals :
        task[h].exc # ""
            => /\ task[h].ret = "none"
               /\ store.status[h] = STATUS_ERROR
               /\ LastLog(h) = LogRow(STATUS_ERROR, task[h].exc)

\* C8 (Spec): batch_process returns its counts for any list of hospitals and
\* any concurrency >= 1; it never ends by raising.
C8_BatchNeverRaises == phase # "raised"

\* C9 (Spec): during batch_process with concurrency c at most c hospitals
\* have a find_price_file attempt in flight, and the semaphore's free slots
\* are the c minus the attempts in flight.
C9_AtMostCInFlight ==
    phase = "running"
        => /\ Cardinality({h \in Hospitals : task[h].pc \in InFlight}) <= concurrency
           /\ sem = concurrency - Cardinality({h \in Hospitals : task[h].pc \in InFlight})

\* every slot is taken while another hospital's task waits at the semaphore
C9_Witness ==
    /\ phase = "running"
    /\ Cardinality({h \in Hospitals : task[h].pc \in InFlight}) = concurrency
    /\ sem = 0
    /\ \E h \in Hospitals : task[h].pc = "gate"

\* C10 (Spec): a failed status-store write is never dropped with the attempt
\* going on as if it had succeeded: while an attempt is past start_search and
\* still running, the store has the hospital as searching.
C10_NoSilentDrop ==
    \A h \in Hospitals : task[h].pc \in InFlight => store.status[h] = STATUS_SEARCHING

\* ------------------------------------------------- claims on one attempt
Collected(h) == task[h].valid

\* C11: an attempt in which at least one candidate file passed the format
\* check and the hospital match ends with the hospital found, a PriceFile
\* returned, and exactly one validated price-file row written for it.
C11_ValidFileIsFound ==
    \A h \in Hospitals :
        (task[h].pc = "done" /\ Collected(h) # <<>>) =>
            /\ store.status[h] = STATUS_FOUND
            /\ task[h].ret = "file"
            /\ Len(store.files[h]) = 1
            /\ store.files[h][1].validated

\* C12: the PriceFile handed to mark_success and returned is one of the
\* valid files the attempt collected, and no collected file scores higher.
C12_BestOfCollected ==
    \A h \in Hospitals :
        (task[h].pc = "done" /\ task[h].ret = "file") =>
            /\ \E i \in 1..Len(Collected(h)) : Collected(h)[i] = task[h].best
            /\ \A i \in 1..Len(Collected(h)) :
                   Collected(h)[i].score <= task[h].best.score
            /\ \A i \in 1..Len(store.files[h]) : store.files[h][i] = task[h].best

\* a file was returned and stored although a lower-scored one was collected first
C12_Witness ==
    \E h \in Hospitals :
        /\ task[h].pc = "done"
        /\ task[h].ret = "file"
        /\ Len(Collected(h)) >= 2
        /\ Collected(h)[1].score < task[h].best.score
        /\ store.files[h] = <<task[h].best>>

\* the attempt of h has ended and its search had returned no results
ZeroResults(h) == task[h].pc = "done" /\ task[h].why = "no_results"

NoResultsRows(h) == {i \in 1..Len(store.logs[h]) : store.logs[h][i].message = NO_RESULTS}
StartedRows(h) ==
    {i \in 1..Len(store.logs[h]) :
        store.logs[h][i] = LogRow(STATUS_SEARCHING, "Search started")}

C14_CancelledEndTerminal ==
    \A h \in Hospitals :
        (task[h].pc = "cancelled" /\ store.attempts[h] > 0) =>
            store.status[h] \in Terminal

\* ------------------------------------------------ functions on their own
\* every other variable while one function is called on its own
Standalone ==
    /\ tracker = "sqlite"
    /\ store = EmptyStore
    /\ lastCall = [op |-> "none", id |-> 0]
    /\ phase = "fn"
    /\ hospitals = {}
    /\ concurrency = 0
    /\ sem = 0
    /\ task = [h \in Hospitals |-> NewTask]
    /\ stats = ZeroStats
    /\ results = [h \in Hospitals |-> "unset"]
    /\ calls = [h \in Hospitals |-> NoCalls]
    /\ web = [results |-> 0, files |-> 0, faults |-> 0]
    /\ runner = [pc |-> "off", h |-> 0, rv |-> "unset"]

\* the function returns: only fn changes
Returns(f) ==
    /\ fn' = f
    /\ UNCHANGED <<tracker, store, lastCall, phase, hospitals, concurrency, sem,
                   task, stats, results, calls, web, runner>>

\* ---------------------------------- StatusTracker.get_hospitals_to_search
\* QuerySpec: get_hospitals_to_search(limit, states) on a hospitals table.
\* A row: search_status, state, search_attempts, validation_date and
\* last_searched (0 is NULL). A pending row has never been searched;
\* start_search sets last_searched with search_attempts + 1 and mark_success
\* sets validation_date.
StateCodes == {"AL", "IL"}
Times == {1, 2, 3}
AttemptCounts == {1, 2}

\* the keys of the ORDER BY vary on the error rows; a found row has its
\* validation_date, and so has an error row that was found before and
\* searched again later
HospitalRows ==
    [status : {STATUS_PENDING}, state : StateCodes, attempts : {0},
     vdate : {0}, searched : {0}]
    \cup
    {r \in [status : {STATUS_ERROR}, state : StateCodes,
            attempts : AttemptCounts, vdate : {0} \cup Times, searched : Times] :
        r.vdate # 0 => (r.attempts > 1 /\ r.searched > r.vdate)}
    \cup
    [status : {STATUS_SEARCHING, STATUS_NOT_FOUND}, state : StateCodes,
     attempts : {1}, vdate : {0}, searched : {1}]
    \cup
    [status : {STATUS_FOUND}, state : StateCodes,
     attempts : {1}, vdate : {1}, searched : {1}]

RowIds == 1..QueryRows

\* WHERE search_status = ? OR search_status = ? [AND state IN (...)]
\* AND binds tighter than OR; states = {} is no filter (if states:)
Selected(rows, states) ==
    {i \in RowIds :
        \/ rows[i].status = STATUS_PENDING
        \/ /\ rows[i].status = STATUS_ERROR
           /\ states # {} => rows[i].state \in states}

\* ORDER BY search_attempts ASC, validation_date ASC NULLS FIRST,
\* last_searched ASC NULLS FIRST: a sorts strictly before b
SortsBefore(a, b) ==
    \/ a.attempts < b.attempts
    \/ a.attempts = b.attempts /\ a.vdate < b.vdate
    \/ a.attempts = b.attempts /\ a.vdate = b.vdate /\ a.searched < b.searched

\* the row lists the query can return: the selected rows in ORDER BY order
\* (rows with equal keys in any order), cut at LIMIT
QueryResults(rows, limit, states) ==
    LET S == Selected(rows, states)
        n == Min(limit, Cardinality(S))
    IN {s \in [1..n -> S] :
          /\ \A i, j \in 1..n : i < j =>
                /\ s[i] # s[j]
                /\ ~SortsBefore(rows[s[j]], rows[s[i]])
          /\ \A k \in S : (\A i \in 1..n : s[i] # k) =>
                \A i \in 1..n : ~SortsBefore(rows[k], rows[s[i]])}

\* get_hospitals_to_search: the connection is opened outside the try (raise),
\* an error inside it returns the empty list
GetHospitalsToSearch ==
    /\ fn.op = "get_hospitals_to_search"
    /\ fn.done = "no"
    /\ \E o \in SqliteOutcomes :
         IF o = "raise" THEN Returns([fn EXCEPT !.done = "raised"])
         ELSE IF o = "fail" THEN Returns([fn EXCEPT !.done = "returned"])
         ELSE \E s \in QueryResults(fn.rows, fn.limit, fn.states) :
                 Returns([fn EXCEPT !.done = "returned", !.out = s])

QueryInit ==
    /\ Standalone
    /\ fn \in [op : {"get_hospitals_to_search"}, rows : [RowIds -> HospitalRows],
               limit : 1..QueryRows, states : SUBSET StateCodes,
               done : {"no"}, out : {<<>>}]

QueryNext == GetHospitalsToSearch

QuerySpec == QueryInit /\ [][QueryNext]_vars

\* C15: every hospital get_hospitals_to_search(limit, states) returns is
\* pending or error and, when a state filter is given, its state is in the
\* filter, whichever of the two statuses it has.
C15_ReturnedAreEligible ==
    fn.op = "get_hospitals_to_search" =>
        \A i \in 1..Len(fn.out) :
            /\ fn.rows[fn.out[i]].status \in {STATUS_PENDING, STATUS_ERROR}
            /\ fn.states # {} => fn.rows[fn.out[i]].state \in fn.states

\* ------------------------------------------------ HospitalMatcher.validate
\* MatcherSpec: validate(file_path, hospital, content_analyzer) on one file.
\* Confidences are in hundredths. A file is described by what its name
\* contains (exact substring tests), where its content sample has the
\* hospital name and the system name (an occurrence with the number of
\* characters before and after it), and whether the sample contains the
\* city, the state code and a price-transparency indicator. The hospital's
\* name has no other variation occurring in the file, and the text around an
\* occurrence shares no character with the name.
NoVerdict == [isMatch |-> FALSE, confidence |-> 0]
Verdict(m, c) == [isMatch |-> m, confidence |-> c]

Pads == {0, 20}
Absent == [present |-> FALSE, before |-> 0, after |-> 0]
Occurrences == {Absent} \cup [present : {TRUE}, before : Pads, after : Pads]
NameLengths == {5, 8}
SystemNameLengths == {0, 6}
NameEvidence == {"hospital", "system", "city", "state"}

\* SequenceMatcher(None, needle, chunk).ratio() > 0.7 where the needle has
\* len characters and m of them are matched in a chunk of c characters:
\* 2 * m / (len + c) > 0.7
RatioAbove70(len, m, c) == 20 * m > 7 * (len + c)

\* characters of the occurrence [p, p + len) inside the chunk [a, a + c)
Overlap(p, len, a, c) ==
    LET lo == IF p > a THEN p ELSE a
        hi == Min(p + len, a + c)
    IN IF hi > lo THEN hi - lo ELSE 0

\* HospitalMatcher._fuzzy_match_in_text(needle, haystack): needles shorter
\* than 4 are searched exactly; otherwise chunks of 2 * len(needle) characters
\* starting every len(needle) characters are compared with the needle
FuzzyMatchInText(len, occ) ==
    IF ~occ.present THEN FALSE
    ELSE IF len < 4 THEN TRUE
    ELSE LET n == occ.before + len + occ.after
         IN \E i \in 0..((n - len) \div len) :
                LET c == Min(2 * len, n - i * len)
                IN RatioAbove70(len, Overlap(occ.before, len, i * len, c), c)

\* for variation in variations: fuzzy matching above 5 characters, the in
\* operator otherwise
ContentHasName(len, occ) ==
    IF len > 5 THEN FuzzyMatchInText(len, occ) ELSE occ.present

\* HospitalMatcher._rule_based_validation
RuleBasedValidation(f, hosp) ==
    IF ~f.exists THEN Verdict(FALSE, 0)
    ELSE
    LET system_name == hosp.systemLen > 0
        has_hospital_name == "hospital" \in f.inName
        has_system_name == system_name /\ "system" \in f.inName
        has_location == "city" \in f.inName \/ "state" \in f.inName
        content_has_hospital_name == ContentHasName(hosp.nameLen, f.hospital)
        content_has_system_name ==
            system_name /\ ContentHasName(hosp.systemLen, f.system)
        content_has_location == f.city /\ f.state
    IN IF has_hospital_name /\ (has_location \/ content_has_location)
       THEN Verdict(TRUE, 90)
       ELSE IF content_has_hospital_name /\ (has_location \/ content_has_location)
       THEN Verdict(TRUE, 85)
       ELSE IF system_name /\ has_system_name
               /\ (has_location \/ content_has_location)
       THEN Verdict(TRUE, 80)
       ELSE IF system_name /\ content_has_system_name /\ content_has_location
       THEN Verdict(TRUE, 75)
       ELSE IF has_location /\ content_has_location /\ f.price
       THEN Verdict(TRUE, 70)
       ELSE IF (has_hospital_name \/ content_has_hospital_name)
               /\ ~(has_location \/ content_has_location)
       THEN Verdict(FALSE, 60)
       ELSE IF (has_system_name \/ content_has_system_name)
               /\ ~(has_location \/ content_has_location)
       THEN Verdict(FALSE, 50)
       ELSE Verdict(FALSE, 70)

\* a validate whose except clause rejects the file instead of falling back
ValidateWithRejecting(rb, a) ==
    IF rb.confidence > 90 THEN rb
    ELSE IF a.kind = "none" THEN rb
    ELSE IF a.kind = "raises" THEN Verdict(FALSE, 0)
    ELSE IF a.valid /\ ~rb.isMatch THEN Verdict(TRUE, a.confidence)
    ELSE IF ~a.valid /\ rb.isMatch
    THEN IF a.confidence > 80 THEN Verdict(FALSE, a.confidence) ELSE rb
    ELSE IF a.valid /\ rb.isMatch
    THEN Verdict(TRUE, Max({rb.confidence, a.confidence}))
    ELSE Verdict(FALSE, Max({rb.confidence, a.confidence}))

\* validate once the rule-based tier returned rb: a is no analyzer, one whose
\* validate_hospital_match raises, or one that returns valid and confidence
ValidateWith(rb, a) ==
    IF rb.confidence > 90 THEN rb
    ELSE IF a.kind = "none" THEN rb
    ELSE IF a.kind = "raises" THEN rb
    ELSE IF a.valid /\ ~rb.isMatch THEN Verdict(TRUE, a.confidence)
    ELSE IF ~a.valid /\ rb.isMatch
    THEN IF a.confidence > 80 THEN Verdict(FALSE, a.confidence) ELSE rb
    ELSE IF a.valid /\ rb.isMatch
    THEN Verdict(TRUE, Max({rb.confidence, a.confidence}))
    ELSE Verdict(FALSE, Max({rb.confidence, a.confidence}))

\* HospitalMatcher.validate
Validate ==
    /\ fn.op = "validate"
    /\ fn.done = "no"
    /\ LET rb == RuleBasedValidation(fn.file, fn.hospital)
       IN Returns([fn EXCEPT !.done = "returned", !.rule = rb,
                             !.out = ValidateWith(rb, fn.analyzer)])

Files ==
    [exists : BOOLEAN, inName : SUBSET NameEvidence, hospital : Occurrences,
     system : Occurrences, city : BOOLEAN, state : BOOLEAN, price : BOOLEAN]

MatchedHospitals == [nameLen : NameLengths, systemLen : SystemNameLengths]

LlmConfidences == {50, 80, 90}
Analyzers ==
    [kind : {"none", "raises"}, valid : {FALSE}, confidence : {0}]
    \cup [kind : {"returns"}, valid : BOOLEAN, confidence : LlmConfidences]

MatcherInit ==
    /\ Standalone
    /\ fn \in [op : {"validate"}, file : Files, hospital : MatchedHospitals,
               analyzer : Analyzers, done : {"no"}, rule : {NoVerdict},
               out : {NoVerdict}]

MatcherNext == Validate

MatcherSpec == MatcherInit /\ [][MatcherNext]_vars

Validated == fn.op = "validate" /\ fn.done = "returned"

\* the two tiers disagree: the analyzer returned a verdict other than the
\* rule-based one
TiersDisagree ==
    /\ Validated
    /\ fn.analyzer.kind = "returns"
    /\ fn.analyzer.valid # fn.rule.isMatch

\* C16: when the rule-based tier and the LLM tier disagree and the LLM's
\* confidence is not above 0.8, validate returns the rule-based verdict, in
\* both directions of disagreement; the LLM's verdict is returned only when
\* its confidence is above 0.8.
C16_RulesWinUnlessConfident ==
    TiersDisagree =>
        /\ fn.analyzer.confidence <= 80 => fn.out.isMatch = fn.rule.isMatch
        /\ fn.out.isMatch # fn.rule.isMatch => fn.analyzer.confidence > 80

\* C17: when the LLM tier raises, validate returns the rule-based tier's
\* isMatch and confidence, and returns rather than raises.
C17_FallsBackOnRules ==
    (fn.op = "validate" /\ fn.done # "no" /\ fn.analyzer.kind = "raises") =>
        /\ fn.done = "returned"
        /\ fn.out = fn.rule

\* the LLM tier raised on a file the rule-based tier matched
C17_Witness ==
    /\ Validated
    /\ fn.analyzer.kind = "raises"
    /\ fn.rule.isMatch
    /\ fn.out = fn.rule
    /\ fn.out.confidence = 85

\* C18: a file whose content sample contains the exact hospital name and the
\* city is matched by the rule-based tier with confidence above 0.8, with or
\* without the state code or any evidence in the file name.
C18_NameAndCityMatch ==
    (Validated /\ fn.file.exists /\ fn.file.hospital.present /\ fn.file.city) =>
        /\ fn.rule.isMatch
        /\ fn.rule.confidence > 80

NoEvidence(f) ==
    /\ f.inName = {}
    /\ ~f.hospital.present
    /\ ~f.system.present
    /\ ~f.city
    /\ ~f.state

\* C19: a file with no hospital-name, system-name or location evidence in
\* its name or content is rejected by the rule-based tier with confidence at
\* most 0.2.
C19_NoEvidenceLowConfidence ==
    (Validated /\ fn.file.exists /\ NoEvidence(fn.file)) =>
        /\ ~fn.rule.isMatch
        /\ fn.rule.confidence <= 20

\* ------------------------------------------ FileValidator.is_valid_format
\* ValidatorSpec: is_valid_format(file_path) on one non-empty data file. A
\* file has a format, header names (column names, keys of the records, child
\* tags), a number of data rows, and cells that are all numeric charges
\* ("125.50", 125.5) or all non-numeric text ("n/a").
Formats == {"csv", "xlsx", "json_array", "json_object", "xml"}
HeaderNames == {"price", "code", "hospital", "description"}
RowCounts == {0, 2, 3, 9, 10, 20}
CellKinds == {"numeric", "text"}

\* FileValidator._headers_indicate_price_file: a price keyword and a code
\* keyword among the headers, or 'price' together with a hospital indicator
\* (none of these header names holds a price-transparency pattern)
HeadersIndicatePriceFile(H) ==
    LET sufficient_columns == "price" \in H /\ "code" \in H
        has_price == "price" \in H
        has_hospital_indicator == "hospital" \in H
    IN H # {} /\ (sufficient_columns \/ (has_price /\ has_hospital_indicator))

\* PRICE_PATTERN.match(cell) on some cell of the sampled rows; int or float
\* dtype of a column; a positive number or matching string among the values
PriceValuesFound(f) == f.rows > 0 /\ f.cells = "numeric"

\* FileValidator._validate_csv: the header names match no PRICE_PATTERN, so
\* headers that do not indicate a price file end the attempt for the
\* delimiter, and no other delimiter occurs in the file
ValidateCsv(f) ==
    IF ~HeadersIndicatePriceFile(f.headers) THEN FALSE
    ELSE IF f.rows > 0 /\ PriceValuesFound(f)
    THEN IF f.rows < MinRows THEN f.rows >= SmallListRows ELSE TRUE
    ELSE FALSE

\* FileValidator._validate_excel
ValidateExcel(f) ==
    IF f.rows = 0 THEN FALSE
    ELSE IF ~HeadersIndicatePriceFile(f.headers) THEN FALSE
    ELSE IF f.rows < MinRows THEN FALSE
    ELSE PriceValuesFound(f)

\* FileValidator._validate_json on an array of records
ValidateJsonArray(f) ==
    IF f.rows = 0 THEN FALSE
    ELSE IF f.rows < MinRows THEN FALSE
    ELSE IF ~HeadersIndicatePriceFile(f.headers) THEN FALSE
    ELSE PriceValuesFound(f)

\* FileValidator._validate_json on an object whose one key holds the array of
\* records: with an array of min_rows items found, the function returns True
\* in the loop or falls through to the final return True
ValidateJsonObject(f) ==
    LET arrays_found == f.rows >= MinRows
    IN IF arrays_found /\ HeadersIndicatePriceFile(f.headers) /\ PriceValuesFound(f)
       THEN TRUE
       ELSE IF ~arrays_found THEN FALSE
       ELSE TRUE

\* FileValidator.is_valid_format by extension: .csv, .xlsx, .json, and .xml,
\* which is accepted as it is
IsValidFormat(f) ==
    IF f.format = "csv" THEN ValidateCsv(f)
    ELSE IF f.format = "xlsx" THEN ValidateExcel(f)
    ELSE IF f.format = "json_array" THEN ValidateJsonArray(f)
    ELSE IF f.format = "json_object" THEN ValidateJsonObject(f)
    ELSE TRUE

CallIsValidFormat ==
    /\ fn.op = "is_valid_format"
    /\ fn.done = "no"
    /\ Returns([fn EXCEPT !.done = "returned", !.out = IsValidFormat(fn.file)])

DataFiles ==
    [format : Formats, headers : SUBSET HeaderNames, rows : RowCounts,
     cells : CellKinds]

ValidatorInit ==
    /\ Standalone
    /\ fn \in [op : {"is_valid_format"}, file : DataFiles, done : {"no"},
               out : {FALSE}]

ValidatorNext == CallIsValidFormat

ValidatorSpec == ValidatorInit /\ [][ValidatorNext]_vars

\* a file with one price column, one code column and 20 rows
WellFormed(f) == f.headers = {"price", "code"} /\ f.rows = 20

\* C20: in every supported format, a file with a price column, a code column
\* and 20 rows validates as true when its cells are numeric charges and as
\* false when every numeric cell is replaced by non-numeric text.
C20_ValidatorRoundTrip ==
    (fn.op = "is_valid_format" /\ fn.done = "returned" /\ WellFormed(fn.file)) =>
        fn.out = (fn.file.cells = "numeric")

\* ------------------------------------- WebCrawler._find_price_file_links
\* LinkSpec: the first pass of _find_price_file_links over the links of one
\* page, repeated after evidence is added to a link. A link is described by
\* the tests the crawler makes on it: is_file (the URL path ends in one of
\* PRICE_FILE_EXTENSIONS), a PRICE_FILE_KEYWORDS keyword in the URL, one in
\* the link text. The crawler computes no graded score: a link is kept in
\* price_file_links or it is not.
Evidence == {"is_file", "kw_url", "kw_text"}
LinkKinds == [is_file : BOOLEAN, kw_url : BOOLEAN, kw_text : BOOLEAN]
Pages == UNION {[1..n -> LinkKinds] : n \in 1..MaxPageLinks}

\* a first pass that judges file links by their URL alone
KeepsLinkByUrl(l) == IF l.is_file THEN l.kw_url ELSE l.kw_text

\* first pass: a file link with a keyword in its URL or text is appended
\* (continue); otherwise any link with a keyword in its text is appended
KeepsLink(l) ==
    \/ l.is_file /\ (l.kw_url \/ l.kw_text)
    \/ l.kw_text

RECURSIVE KeptLinks(_, _)
\* the indices of the links the first pass appends, in page order, from i on
KeptLinks(page, i) ==
    IF i > Len(page) THEN <<>>
    ELSE (IF KeepsLink(page[i]) THEN <<i>> ELSE <<>>) \o KeptLinks(page, i + 1)

FindPriceFileLinks ==
    /\ fn.op = "find_price_file_links"
    /\ fn.done = "no"
    /\ Returns([fn EXCEPT !.done = "returned", !.out = KeptLinks(fn.page, 1)])

\* the same page with one more piece of evidence on link i, crawled again
AddEvidence ==
    /\ fn.op = "find_price_file_links"
    /\ fn.done = "returned"
    /\ \E i \in 1..Len(fn.page), e \in Evidence :
        /\ ~fn.page[i][e]
        /\ Returns([fn EXCEPT !.page[i][e] = TRUE,
                              !.added = @ \cup {<<i, e>>},
                              !.before = fn.out,
                              !.done = "no",
                              !.out = <<>>])

LinkInit ==
    /\ Standalone
    /\ fn \in [op : {"find_price_file_links"}, page : Pages, added : {{}},
               before : {<<>>}, done : {"no"}, out : {<<>>}]

LinkNext == FindPriceFileLinks \/ AddEvidence

LinkSpec == LinkInit /\ [][LinkNext]_vars

InSeq(x, s) == \E k \in 1..Len(s) : s[k] = x

HoldsHighConfidence(h) == HasHighConfidence(task[h].valid \o task[h].temp)

CrawlTasks == 1..MaxCrawlTasks

NewCrawlTask == [pc |-> "idle", page |-> 0, ctx |-> 0, ready |-> FALSE,
                 after |-> "idle"]

NewCrawler ==
    [op |-> "crawler", playwright |-> FALSE, browser |-> "none",
     context |-> 0, made |-> 0, closed |-> {},
     t |-> [k \in CrawlTasks |-> NewCrawlTask]]

At(k, pc) == fn.op = "crawler" /\ fn.t[k].pc = pc

\* crawl: initialize_browser finds self.browser set, or starts Playwright
Crawl(k) ==
    /\ At(k, "idle")
    /\ IF fn.browser = "none"
         THEN Returns([fn EXCEPT !.t[k].pc = "pw_start"])
         ELSE Returns([fn EXCEPT !.t[k].pc = "requests",
                                 !.t[k].ready = TRUE])

\* initialize_browser: async_playwright().start() returns
PlaywrightStarted(k) ==
    /\ At(k, "pw_start")
    /\ Returns([fn EXCEPT !.playwright = TRUE, !.t[k].pc = "launch"])

\* initialize_browser: chromium.launch(headless=True) returns
Launched(k) ==
    /\ At(k, "launch")
    /\ Returns([fn EXCEPT !.browser = "headless", !.t[k].pc = "new_context"])

\* initialize_browser: the launch raises; close_browser, then return False
LaunchFails(k) ==
    /\ At(k, "launch")
    /\ Returns([fn EXCEPT !.t[k].pc = "close_context",
                          !.t[k].after = "requests", !.t[k].ready = FALSE])

\* initialize_browser: browser.new_context returns
ContextMade(k) ==
    /\ At(k, "new_context")
    /\ fn.made < MaxContexts
    /\ Returns([fn EXCEPT !.made = @ + 1, !.context = fn.made + 1,
                          !.t[k].pc = "requests", !.t[k].ready = TRUE])

\* crawl: _fetch_with_requests returns; _fetch_with_playwright when the
\* browser is ready, which returns "" without browser or context and else
\* calls self.context.new_page()
FetchWithPlaywright(k) ==
    /\ At(k, "requests")
    /\ IF fn.t[k].ready /\ fn.browser # "none" /\ fn.context # 0
         THEN Returns([fn EXCEPT !.t[k].pc = "new_page",
                                 !.t[k].ctx = fn.context])
         ELSE Returns([fn EXCEPT !.t[k].pc = "crawled"])

\* _fetch_with_playwright: new_page returns the page, or raises on a
\* context closed meanwhile
PageOpened(k) ==
    /\ At(k, "new_page")
    /\ IF fn.t[k].ctx \in fn.closed
         THEN Returns([fn EXCEPT !.t[k].pc = "crawled", !.t[k].ctx = 0])
         ELSE Returns([fn EXCEPT !.t[k].pc = "page",
                                 !.t[k].page = fn.t[k].ctx, !.t[k].ctx = 0])

\* _fetch_with_playwright: goto, scrolling, clicks and content are over
\* (or raised); finally: page.close()
PageClosed(k) ==
    /\ At(k, "page")
    /\ Returns([fn EXCEPT !.t[k].pc = "crawled", !.t[k].page = 0])

\* download_file: the aiohttp download answers
DownloadFile(k) ==
    /\ At(k, "crawled")
    /\ Returns([fn EXCEPT !.t[k].pc = "idle"])

\* download_file: 403 or a client error; _download_with_playwright begins
\* with close_browser
DownloadWithPlaywright(k) ==
    /\ At(k, "crawled")
    /\ Returns([fn EXCEPT !.t[k].pc = "close_context",
                          !.t[k].after = "dl_pw_start"])

\* close_browser: if self.context: await self.context.close()
CloseContext(k) ==
    /\ At(k, "close_context")
    /\ IF fn.context # 0
         THEN Returns([fn EXCEPT !.closed = @ \cup {fn.context},
                                 !.t[k].pc = "context_closed"])
         ELSE Returns([fn EXCEPT !.t[k].pc = "close_browser"])

\* close_browser: self.context = None
ContextClosed(k) ==
    /\ At(k, "context_closed")
    /\ Returns([fn EXCEPT !.context = 0, !.t[k].pc = "close_browser"])

\* close_browser: if self.browser: await self.browser.close();
\* self.browser = None
CloseBrowser(k) ==
    /\ At(k, "close_browser")
    /\ Returns([fn EXCEPT !.browser = "none", !.t[k].pc = "stop_playwright"])

\* close_browser: if self.playwright: await self.playwright.stop();
\* self.playwright = None; back in the caller
StopPlaywright(k) ==
    /\ At(k, "stop_playwright")
    /\ Returns([fn EXCEPT !.playwright = FALSE,
                          !.t[k].pc = fn.t[k].after, !.t[k].after = "idle"])

\* _download_with_playwright: async_playwright().start() returns
DlPlaywrightStarted(k) ==
    /\ At(k, "dl_pw_start")
    /\ Returns([fn EXCEPT !.playwright = TRUE, !.t[k].pc = "dl_launch"])

\* _download_with_playwright: chromium.launch(headless=False) returns
DlLaunched(k) ==
    /\ At(k, "dl_launch")
    /\ Returns([fn EXCEPT !.browser = "headed", !.t[k].pc = "dl_new_context"])

\* _download_with_playwright: the launch raises; return b"", None
DlLaunchFails(k) ==
    /\ At(k, "dl_launch")
    /\ Returns([fn EXCEPT !.t[k].pc = "idle"])

\* _download_with_playwright: browser.new_context returns
DlContextMade(k) ==
    /\ At(k, "dl_new_context")
    /\ fn.made < MaxContexts
    /\ Returns([fn EXCEPT !.made = @ + 1, !.context = fn.made + 1,
                          !.t[k].pc = "dl_init_script"])

\* _download_with_playwright: add_init_script returns; page =
\* await self.context.new_page(), which raises on None
DlNewPage(k) ==
    /\ At(k, "dl_init_script")
    /\ IF fn.context = 0
         THEN Returns([fn EXCEPT !.t[k].pc = "idle"])
         ELSE Returns([fn EXCEPT !.t[k].pc = "dl_new_page",
                                 !.t[k].ctx = fn.context])

\* _download_with_playwright: new_page returns the page, or raises
DlPageOpened(k) ==
    /\ At(k, "dl_new_page")
    /\ IF fn.t[k].ctx \in fn.closed
         THEN Returns([fn EXCEPT !.t[k].pc = "idle", !.t[k].ctx = 0])
         ELSE Returns([fn EXCEPT !.t[k].pc = "dl_page",
                                 !.t[k].page = fn.t[k].ctx, !.t[k].ctx = 0])

\* _download_with_playwright: the download is over; finally: page.close()
DlPageClosed(k) ==
    /\ At(k, "dl_page")
    /\ Returns([fn EXCEPT !.t[k].pc = "idle", !.t[k].page = 0])

BrowserInit == Standalone /\ fn = NewCrawler

BrowserNext ==
    \E k \in CrawlTasks :
        \/ Crawl(k)
        \/ PlaywrightStarted(k)
        \/ Launched(k)
        \/ LaunchFails(k)
        \/ ContextMade(k)
        \/ FetchWithPlaywright(k)
        \/ PageOpened(k)
        \/ PageClosed(k)
        \/ DownloadFile(k)
        \/ DownloadWithPlaywright(k)
        \/ CloseContext(k)
        \/ ContextClosed(k)
        \/ CloseBrowser(k)
        \/ StopPlaywright(k)
        \/ DlPlaywrightStarted(k)
        \/ DlLaunched(k)
        \/ DlLaunchFails(k)
        \/ DlContextMade(k)
        \/ DlNewPage(k)
        \/ DlPageOpened(k)
        \/ DlPageClosed(k)

BrowserSpec == BrowserInit /\ [][BrowserNext]_vars

\* C23: with several tasks in flight on the one WebCrawler, no browser
\* context holds the open pages of two tasks at the same time, and no task
\* closes or replaces the shared context while another task has a page
\* open on it.
C23_ContextNotShared ==
    fn.op = "crawler" =>
        /\ \A j, k \in CrawlTasks :
               (j # k /\ fn.t[j].page # 0) => fn.t[j].page # fn.t[k].page
        /\ \A k \in CrawlTasks :
               fn.t[k].page # 0 =>
                   fn.t[k].page \notin fn.closed /\ fn.t[k].page = fn.context

\* C24: an exception raised while a result page is crawled or its links are
\* extracted does not end the attempt: no attempt ends in the except clause
\* with that page's exception, so the remaining pages are still visited and
\* the valid files of earlier pages reach Step 4.
C24_CrawlFailureSkipsPage ==
    \A h \in Hospitals : task[h].pc = "done" => task[h].exc # E_CRAWL

\* --------------------------------------- the candidate links of one page
\* CandidateSpec: find_price_file's candidate list for one crawled page.
\* A link of page_data['links'] has a url, the facility its list item names
\* (NoFacility without the key), whether _find_price_file_links kept it
\* (price) and whether it passes the orchestrator's own filter (passes);
\* sections are the urls _find_machine_readable_sections returns; match is
\* the word-overlap score, in percent, of each facility with the hospital.
Urls == {"u", "v"}
NoFacility == "none"
Facilities == {"A", "B"}
MatchScores == {30, 50, 70}

PageLinks == [url : Urls, facility : Facilities \cup {NoFacility},
              price : BOOLEAN, passes : BOOLEAN]
PageData ==
    [links : UNION {[1..n -> PageLinks] : n \in 0..MaxPageLinks},
     sections : UNION {[1..n -> Urls] : n \in 0..MaxPageLinks}]

SectionLink(u) == [url |-> u, facility |-> NoFacility, price |-> TRUE,
                   passes |-> FALSE]
RECURSIVE SectionLinks(_, _)
SectionLinks(s, i) ==
    IF i > Len(s) THEN <<>> ELSE <<SectionLink(s[i])>> \o SectionLinks(s, i + 1)

IsPrice(l) == l.price
Passes(l) == l.passes

\* crawl: _find_price_file_links (its own second pass included), extended by
\* _find_machine_readable_sections once more
PriceFileLinks(p) ==
    SelectSeq(p.links, IsPrice) \o SectionLinks(p.sections, 1)
                                \o SectionLinks(p.sections, 1)

\* the links the two loops of find_price_file append, in the order they do
Appended(p) == PriceFileLinks(p) \o SelectSeq(p.links, Passes)

RECURSIVE UrlsOf(_, _)
UrlsOf(s, i) == IF i > Len(s) THEN <<>> ELSE <<s[i].url>> \o UrlsOf(s, i + 1)

RECURSIVE FacilitiesOf(_, _)
FacilitiesOf(s, i) ==
    IF i > Len(s) THEN <<>>
    ELSE (IF s[i].facility # NoFacility THEN <<s[i].facility>> ELSE <<>>)
         \o FacilitiesOf(s, i + 1)

RECURSIVE FromKeys(_, _)
\* list(dict.fromkeys(s)): the first occurrence of each element, in order
FromKeys(s, i) ==
    IF i > Len(s) THEN <<>>
    ELSE (IF \E j \in 1..(i - 1) : s[j] = s[i] THEN <<>> ELSE <<s[i]>>)
         \o FromKeys(s, i + 1)

\* file_links after 'Filter out duplicate links'
FileLinks(p) == FromKeys(UrlsOf(Appended(p), 1), 1)

\* facility_links[f]: every url appended for facility f
FacilityLinks(p, f) ==
    LET OfF(l) == l.facility = f IN UrlsOf(SelectSeq(Appended(p), OfF), 1)

\* the keys of facility_links in insertion order
FacilityKeys(p) == FromKeys(FacilitiesOf(Appended(p), 1), 1)

RECURSIVE BestMatchFrom(_, _, _, _)
\* the loop over facility_links.items(): a strictly higher score replaces
\* best_match; best is NoFacility for None
BestMatchFrom(keys, match, i, best) ==
    IF i > Len(keys) THEN best
    ELSE LET old == IF best = NoFacility THEN 0 ELSE match[best]
         IN BestMatchFrom(keys, match, i + 1,
                          IF match[keys[i]] > old THEN keys[i] ELSE best)

BestMatch(p, match) == BestMatchFrom(FacilityKeys(p), match, 1, NoFacility)

Take(s, n) == SubSeq(s, 1, IF Len(s) < n THEN Len(s) ELSE n)

\* prioritized_links[:max_links_to_check]
PrioritizedLinks(p, match) ==
    LET best == BestMatch(p, match)
        first == FacilityLinks(p, best)
        NotFirst(u) == ~\E k \in 1..Len(first) : first[k] = u
    IN Take(IF best # NoFacility /\ match[best] > GoodMatch
              THEN first \o SelectSeq(FileLinks(p), NotFirst)
              ELSE FileLinks(p),
            MaxLinksToCheck)

Prioritize ==
    /\ fn.op = "prioritized_links"
    /\ fn.done = "no"
    /\ Returns([fn EXCEPT !.done = "returned",
                          !.out = PrioritizedLinks(fn.page, fn.match)])

CandidateInit ==
    /\ Standalone
    /\ fn \in [op : {"prioritized_links"}, page : PageData,
               match : [Facilities -> MatchScores], done : {"no"}, out : {<<>>}]

CandidateNext == Prioritize

CandidateSpec == CandidateInit /\ [][CandidateNext]_vars

\* C25: the candidate list the orchestrator examines for a crawled page
\* holds no url twice, also when a facility's links are put first.
C25_NoUrlTwice ==
    (fn.op = "prioritized_links" /\ fn.done = "returned") =>
        \A i, j \in 1..Len(fn.out) : i # j => fn.out[i] # fn.out[j]

\* the hospitals of the run whose attempt left them in status s
EndedIn(s) == {h \in hospitals : store.status[h] = s}

\* C26: the summary batch_process returns counts as errors the hospitals of
\* the run whose attempt ended in status error, and as not_found those whose
\* attempt ended in status not_found.
C26_TotalsMatchStatuses ==
    phase = "returned" =>
        /\ stats.errors = Cardinality(EndedIn(STATUS_ERROR))
        /\ stats.notFound = Cardinality(EndedIn(STATUS_NOT_FOUND))

\* a was attempted fewer times than b or, with equal attempt counts, less
\* recently (a NULL last_searched, 0, is before every timestamp)
FewerOrOlder(a, b) ==
    \/ a.attempts < b.attempts
    \/ a.attempts = b.attempts /\ a.searched < b.searched

\* C27: get_hospitals_to_search returns at most limit hospitals, ordered by
\* attempt count ascending and, among equal attempt counts, by last-attempt
\* timestamp ascending with never-attempted hospitals first; no other stored
\* field puts a hospital before one that this order puts first.
C27_OrderedByAttemptsThenAge ==
    (fn.op = "get_hospitals_to_search" /\ fn.done = "returned") =>
        /\ Len(fn.out) <= fn.limit
        /\ \A i, j \in 1..Len(fn.out) :
               i < j => ~FewerOrOlder(fn.rows[fn.out[j]], fn.rows[fn.out[i]])

\* C28 (RunnerSpec): when find_price_file has handed control back to the
\* runner with the hospital in the terminal status its status tracker
\* assigned, the rest of the pass stores no other status for the hospital:
\* an attempt that ended in error stays error.
C28_RunnerKeepsTerminalStatus ==
    [][\A h \in Hospitals :
          (runner.pc = "after" /\ runner.h = h /\ store.status[h] \in Terminal)
              => store'.status[h] = store.status[h]]_vars

\* the pass of the runner over h is finished
PassOver(h) == phase \in {"runner", "returned"} /\ task[h].pc = "done" /\ runner.h # h

\* C29 (RunnerSpec): one pass of the runner over a hospital, which is one
\* attempt, adds exactly one to the hospital's search_attempts.
C29_OnePassOneAttempt ==
    \A h \in Hospitals : PassOver(h) => store.attempts[h] = 1

\* ------------------------------------------------------- scheduled runs
\* ScheduleSpec: update_database_from_price_finder called MaxRuns times in
\* a row on the same database, as its scheduler does; fn counts the runs.
RunnerAgain ==
    /\ phase = "returned"
    /\ fn.op = "scheduled"
    /\ fn.run < MaxRuns
    /\ fn' = [fn EXCEPT !.run = @ + 1]
    /\ phase' = "select"
    /\ UNCHANGED <<tracker, store, lastCall, hospitals, concurrency, sem, task,
                   stats, results, calls, web, runner>>

ScheduleInit ==
    /\ tracker = "main"
    /\ fn = [op |-> "scheduled", run |-> 1]
    /\ store = MainStore
    /\ lastCall = [op |-> "none", id |-> 0]
    /\ phase = "select"
    /\ hospitals = {}
    /\ concurrency = 0
    /\ sem = 0
    /\ task = [h \in Hospitals |-> NewTask]
    /\ stats = ZeroStats
    /\ results = [h \in Hospitals |-> "unset"]
    /\ calls = [h \in Hospitals |-> NoCalls]
    /\ web = [results |-> 0, files |-> 0, faults |-> 0]
    /\ runner = [pc |-> "off", h |-> 0, rv |-> "unset"]

ScheduleNext == RunnerNext \/ RunnerAgain

ScheduleSpec == ScheduleInit /\ [][ScheduleNext]_vars

\* C30: the selection query of a run never selects a hospital whose status
\* is found, so over the scheduled runs a found status is never replaced,
\* and a hospital is found exactly when it is flagged as having a price file.
C30_FoundIsFinal ==
    /\ [](\A h \in Hospitals : store.status[h] = STATUS_FOUND <=> store.found[h])
    /\ [][\A h \in Hospitals :
             store.status[h] = STATUS_FOUND =>
                 /\ store'.status[h] = STATUS_FOUND
                 /\ (phase = "select" /\ phase' = "runner") => h \notin hospitals']_vars

====
